---- MODULE Spec2Model ----
(***************************************************************************)
(* Appointment booking application (React front-end over a hosted store    *)
(* with row-level security).  This module models the slot generator of     *)
(* the booking modal, the appointment store with its policies, and the     *)
(* pages that read and write appointments.                                 *)
(***************************************************************************)
EXTENDS Integers, Sequences, FiniteSets, TLC

(***************************************************************************)
(* Time strings.  A string is a sequence of character codes: the digits    *)
(* 0..9 stand for '0'..'9' and Colon for ':' (which sorts right after '9'  *)
(* in UTF-16, as 10 sorts right after 9 here).                             *)
(***************************************************************************)
Colon == 10

\* "HH:MM" as produced by <input type="time"> and by the slot generator.
HHMM(h, m) == <<h \div 10, h % 10, Colon, m \div 10, m % 10>>

\* JavaScript's < on strings: lexicographic on code units, a proper prefix is smaller.
RECURSIVE StrLess(_, _)
StrLess(a, b) ==
    IF b = <<>> THEN FALSE
    ELSE IF a = <<>> THEN TRUE
    ELSE IF Head(a) # Head(b) THEN Head(a) < Head(b)
    ELSE StrLess(Tail(a), Tail(b))

\* s.split(':')[0]
RECURSIVE SplitFirst(_)
SplitFirst(s) ==
    IF s = <<>> \/ Head(s) = Colon THEN <<>>
    ELSE <<Head(s)>> \o SplitFirst(Tail(s))

\* parseInt on a string of decimal digits
RECURSIVE ParseInt(_)
ParseInt(ds) ==
    IF ds = <<>> THEN 0
    ELSE ParseInt(SubSeq(ds, 1, Len(ds) - 1)) * 10 + ds[Len(ds)]

\* n.toString().padStart(2, '0') for 0 <= n < 100
PadStart2(n) == IF n < 10 THEN <<0, n>> ELSE <<n \div 10, n % 10>>

\* `${hour.toString().padStart(2, '0')}:00`
HourString(hour) == PadStart2(hour) \o <<Colon, 0, 0>>

\* The instant of day a well-formed "HH:MM" string denotes, in minutes.
MinutesOf(s) == ParseInt(SubSeq(s, 1, 2)) * 60 + ParseInt(SubSeq(s, 4, 5))

(***************************************************************************)
(* The slot generator of fetchAvailableSlots.                              *)
(***************************************************************************)
\* IsBooked without its first disjunct (apt.start_time === startTime)
IsBookedNoEqual(appts, startTime) ==
    \E apt \in appts :
        StrLess(apt.start_time, startTime) /\ StrLess(startTime, apt.end_time)

\* IsBooked as an interval-overlap test against the whole slot
IsBookedOverlap(appts, startTime) ==
    \E apt \in appts :
        /\ StrLess(apt.start_time, HourString(ParseInt(SplitFirst(startTime)) + 1))
        /\ StrLess(startTime, apt.end_time)

\* appointments?.some(apt => apt.start_time === startTime ||
\*                    (apt.start_time < startTime && apt.end_time > startTime))
IsBooked(appts, startTime) ==
    \E apt \in appts :
        \/ apt.start_time = startTime
        \/ StrLess(apt.start_time, startTime) /\ StrLess(startTime, apt.end_time)

\* for (let hour = startHour; hour < endHour; hour++) { ... slots.push(...) }
RECURSIVE HourLoop(_, _, _)
HourLoop(hour, endHour, appts) ==
    IF hour >= endHour THEN <<>>
    ELSE (IF IsBooked(appts, HourString(hour))
          THEN <<>>
          ELSE <<[start_time |-> HourString(hour), end_time |-> HourString(hour + 1)]>>)
         \o HourLoop(hour + 1, endHour, appts)

\* the body of availability.forEach for one window
WindowSlots(avail, appts) ==
    HourLoop(ParseInt(SplitFirst(avail.start_time)),
             ParseInt(SplitFirst(avail.end_time)), appts)

\* A generator that pushes a slot only if no later window supplies it
RECURSIVE GenerateSlotsOnce(_, _)
GenerateSlotsOnce(availability, appts) ==
    IF availability = <<>> THEN <<>>
    ELSE LET rest == GenerateSlotsOnce(Tail(availability), appts)
         IN  SelectSeq(WindowSlots(Head(availability), appts),
                       LAMBDA s : \A k \in DOMAIN rest : rest[k] # s) \o rest

\* availability.forEach(...) pushing into slots, windows in the order supplied
RECURSIVE GenerateSlots(_, _)
GenerateSlots(availability, appts) ==
    IF availability = <<>> THEN <<>>
    ELSE WindowSlots(Head(availability), appts)
         \o GenerateSlots(Tail(availability), appts)

(***************************************************************************)
(* Bounds of the generator's inputs.                                       *)
(***************************************************************************)
LastHour == 12
MaxWindows == 2
MaxBooked == 1

\* Wall-clock times on the grid the inputs are drawn from: whole hours from
\* 09:00 to LastHour:00, and one half hour.
GridTimes == {HHMM(h, 0) : h \in 9..LastHour} \cup {HHMM(9, 30)}

\* [start_time, end_time] pairs with start before end
Intervals ==
    {iv \in [start_time : GridTimes, end_time : GridTimes] :
        MinutesOf(iv.start_time) < MinutesOf(iv.end_time)}

SeqsUpTo(S, n) == UNION {[1..k -> S] : k \in 0..n}

SetsUpTo(S, n) == {x \in SUBSET S : Cardinality(x) <= n}

(***************************************************************************)
(* Users, dates and the clock of the booking model.                        *)
(***************************************************************************)
Students == {"stuA", "stuB"}

StaffMembers == {"stf1"}

Users == Students \cup StaffMembers

\* profile.role of the signed-in user
Role(u) == IF u \in Students THEN "student" ELSE "staff"

MaxDate == 2
MaxAppointments == 1
MaxAvailability == 1

\* Calendar dates are day numbers; day 1 is a Monday.
Dates == 1..MaxDate

Statuses == {"pending", "approved", "declined", "cancelled", "completed"}

\* new Date(selectedDate).getDay(), for a browser whose local date of the
\* parsed instant is the calendar date itself (UTC or east of it)
GetDay(date) == date % 7

MinutesPerDay == 24 * 60

\* parseISO(`${date}T${time}`) as minutes since day 0, 00:00
InstantOf(date, time) == date * MinutesPerDay + MinutesOf(time)

\* isPast(d): d < Date.now()
IsPast(instant, clock) == instant < clock

\* format(new Date(), 'yyyy-MM-dd')
Today(clock) == clock \div MinutesPerDay

\* The instants the clock takes: the evening before day 1, then 09:30 and 23:00
\* of day 1.
ClockStart == InstantOf(0, HHMM(20, 0))

ClockPoints == {ClockStart, InstantOf(1, HHMM(9, 30)), InstantOf(1, HHMM(23, 0))}

\* The windows a staff member enters in the availability form.
WindowChoices == {[start_time |-> HHMM(9, 0), end_time |-> HHMM(10, 0)]}

NoteTexts == {<<>>, <<1>>}

NoTime == <<>>

VARIABLES
    genAvailability,   \* the rows of the availability query, in the order returned
    genAppointments,   \* the rows of the appointments query (pending/approved)
    slots,             \* the generated slot list
    genPc,             \* "input": inputs chosen; "done": slots computed from them
    genLast,           \* inputs and result of an earlier computation, NoRun if none is kept
    now,               \* the wall clock
    staff_availability,\* table staff_availability, rows in insertion order
    appointments,      \* table appointments: id -> row, for the ids present
    inserted,          \* number of appointment rows inserted so far
    list,              \* per user: the `appointments` state of the Appointments page
    renderedAt,        \* per user: the clock at the page's last render
    modal,             \* per student: state of the booking modal and its form
    notesModal,        \* per staff member: id of the appointment in the notes modal, 0 if closed
    toast,             \* the kind of the last toast shown
    reply,             \* the store's answer to the last request made outside the pages
    configured,        \* whether VITE_SUPABASE_URL and VITE_SUPABASE_ANON_KEY are set
    auth,              \* the state of AuthProvider
    initRun,           \* the position of the running initializeAuth
    call,              \* the position and result of the last signUp/signIn/updateProfile
    user_profiles,     \* table user_profiles: the user_id of each row, in insertion order
    identities,        \* number of identities the auth service has created
    fetches,           \* per screen: its loading flag and the position of its data fetch
    notifications,     \* table notifications: rows [user_id, appointment_id]
    subscribed,        \* whether the onAuthStateChange callback is registered
    profileFetches,    \* user ids of the callback's fetchProfile calls still awaited
    location           \* the path the router is at

genVars == <<genAvailability, genAppointments, slots, genPc, genLast>>

\* What AuthProvider's initialisation and calls never touch of its own state
sessionVars == <<subscribed, profileFetches, location>>

authVars == <<configured, auth, initRun, call, user_profiles, identities, sessionVars>>

appVars == <<now, staff_availability, appointments, inserted, list, renderedAt,
             modal, notesModal, toast, reply, authVars, fetches, notifications>>

\* What the handlers of the pages never touch
offPage == <<genVars, reply, authVars, fetches, notifications>>

vars == <<genVars, appVars>>

EmptyTable == <<>>

NoRun == [ran |-> FALSE]

\* No request has been answered yet
NoReply == [op |-> "none", caller |-> "", error |-> FALSE, count |-> 0, rows |-> {}]

\* useState/useForm initial values of the booking modal
ClosedModal ==
    [isOpen |-> FALSE, editing |-> 0,
     staff_id |-> "", appointment_date |-> 0, start_time |-> NoTime, end_time |-> NoTime,
     availableSlots |-> <<>>, loadingSlots |-> FALSE, inflight |-> {}]

\* useState initial values of AuthProvider (lines 206-212)
NoProfile == [user_id |-> "", role |-> ""]

AuthState ==
    [user |-> "", profile |-> NoProfile, loading |-> TRUE, error |-> "null",
     isDemo |-> FALSE, retryCount |-> 0]

\* initializeAuth has not been called yet
NotStarted == [pc |-> "mounted", attempt |-> 0, started |-> 0, delay |-> 0, outcome |-> "none"]

\* no signUp/signIn/updateProfile has been called yet
NoCall ==
    [fn |-> "none", pc |-> "idle", settled |-> "none", error |-> FALSE, failed |-> FALSE,
     uid |-> "", session |-> FALSE]

\* The identity that may hold a session when the application loads
SessionUser == "u0"

\* AuthProvider just mounted; the session user's profile row exists
AuthMounted ==
    /\ auth = AuthState
    /\ initRun = NotStarted
    /\ call = NoCall
    /\ user_profiles = <<SessionUser>>
    /\ identities = 0
    /\ subscribed = FALSE
    /\ profileFetches = {}
    /\ location = "/login"

\* The screens that fetch data on their own
Screens == {"appointments", "dashboard", "notifications", "availability", "slots"}

\* useState initial value of each screen's loading flag
InitiallyLoading(screen) == screen # "slots"

\* Empty store, nobody has opened a page yet.
PagesInit ==
    /\ notifications = {}
    /\ fetches = [sc \in Screens |-> [loading |-> InitiallyLoading(sc), pc |-> "idle"]]
    /\ now = ClockStart
    /\ staff_availability = <<>>
    /\ appointments = EmptyTable
    /\ inserted = 0
    /\ list = [u \in Users |-> EmptyTable]
    /\ renderedAt = [u \in Users |-> ClockStart]
    /\ modal = [u \in Students |-> ClosedModal]
    /\ notesModal = [s \in StaffMembers |-> 0]
    /\ toast = "none"
    /\ reply = NoReply

AppInit == PagesInit /\ AuthMounted /\ configured = TRUE

GenIdle ==
    /\ genAvailability = <<>>
    /\ genAppointments = {}
    /\ slots = <<>>
    /\ genPc = "input"
    /\ genLast = NoRun

(***************************************************************************)
(* Specification of the generator alone: any inputs, compute, new inputs.  *)
(***************************************************************************)
GenInit == GenIdle /\ AppInit

\* the availability query returns one more window
GenAddWindow ==
    /\ Len(genAvailability) < MaxWindows
    /\ \E w \in Intervals : genAvailability' = Append(genAvailability, w)
    /\ slots' = <<>>
    /\ genPc' = "input"
    /\ UNCHANGED <<genAppointments, genLast, appVars>>

\* the appointments query returns one more pending/approved row
GenAddBooked ==
    /\ Cardinality(genAppointments) < MaxBooked
    /\ \E b \in Intervals \ genAppointments : genAppointments' = genAppointments \cup {b}
    /\ slots' = <<>>
    /\ genPc' = "input"
    /\ UNCHANGED <<genAvailability, genLast, appVars>>

\* a later request for a staff member and date without rows
GenClear ==
    /\ genPc = "done"
    /\ genAvailability' = <<>>
    /\ genAppointments' = {}
    /\ slots' = <<>>
    /\ genPc' = "input"
    /\ UNCHANGED <<genLast, appVars>>

\* lines 126-150: const slots = []; ...; setAvailableSlots(slots)
GenCompute ==
    /\ genPc = "input"
    /\ slots' = GenerateSlots(genAvailability, genAppointments)
    /\ genPc' = "done"
    /\ UNCHANGED <<genAvailability, genAppointments, genLast, appVars>>

GenNext == GenAddWindow \/ GenAddBooked \/ GenClear \/ GenCompute

SpecGen == GenInit /\ [][GenNext]_vars

(***************************************************************************)
(* Specification of the generator on one window of any HH:MM start and     *)
(* end (the time inputs of the availability form), nothing booked.         *)
(***************************************************************************)
\* minutes the windows start and end on
MinuteMarks == {0, 15, 30, 45}

QuarterTimes == {HHMM(h, m) : h \in 9..LastHour, m \in MinuteMarks}

QuarterWindows ==
    {iv \in [start_time : QuarterTimes, end_time : QuarterTimes] :
        MinutesOf(iv.start_time) < MinutesOf(iv.end_time)}

\* the availability query returns the one window, the appointments query none
WindowChoose ==
    /\ \E w \in QuarterWindows : genAvailability' = <<w>>
    /\ genAppointments' = {}
    /\ slots' = <<>>
    /\ genPc' = "input"
    /\ UNCHANGED <<genLast, appVars>>

WindowNext == WindowChoose \/ GenCompute

SpecWindow == GenInit /\ [][WindowNext]_vars

(***************************************************************************)
(* Specification of repeated computations: the component keeps             *)
(* availableSlots between calls; each call builds its own local array.     *)
(***************************************************************************)
\* Inputs of the repeated computations
RepeatWindows ==
    {[start_time |-> HHMM(9, 0), end_time |-> HHMM(11, 0)],
     [start_time |-> HHMM(10, 0), end_time |-> HHMM(12, 0)]}

RepeatBooked ==
    {[start_time |-> HHMM(9, 0), end_time |-> HHMM(10, 0)],
     [start_time |-> HHMM(10, 0), end_time |-> HHMM(11, 0)]}

\* the queries of the next call return their rows; availableSlots keeps its
\* value
RepeatInput ==
    /\ genPc = "done"
    /\ \E av \in SeqsUpTo(RepeatWindows, MaxWindows) : genAvailability' = av
    /\ \E bk \in SetsUpTo(RepeatBooked, MaxBooked) : genAppointments' = bk
    /\ genPc' = "input"
    /\ UNCHANGED <<slots, genLast, appVars>>

\* a call whose array starts from the previous value of availableSlots
SlotsOfCallKept(before, availability, appts) ==
    before \o GenerateSlots(availability, appts)

\* the slot array a call builds, given the value availableSlots had before
\* it: const slots = [] is local to the call, so nothing of `before` is read
SlotsOfCall(before, availability, appts) == GenerateSlots(availability, appts)

\* lines 126-150 of one call
RepeatCompute ==
    /\ genPc = "input"
    /\ slots' = SlotsOfCall(slots, genAvailability, genAppointments)
    /\ genPc' = "done"
    /\ UNCHANGED <<genAvailability, genAppointments, genLast, appVars>>

\* remember the computation just made, to compare a later one with it
RepeatRemember ==
    /\ genPc = "done"
    /\ genLast' = [ran |-> TRUE, availability |-> genAvailability,
                   appointments |-> genAppointments, slots |-> slots]
    /\ genLast' # genLast
    /\ UNCHANGED <<genAvailability, genAppointments, slots, genPc, appVars>>

RepeatNext == RepeatInput \/ RepeatCompute \/ RepeatRemember

SpecRepeat == GenInit /\ [][RepeatNext]_vars

(***************************************************************************)
(* The appointment store: tables and row-level security policies.          *)
(***************************************************************************)
\* "Students can manage own appointments" and "Staff can manage appointments
\* with them", both FOR ALL and permissive: a row passes if either policy passes.
\* a USING clause that admits every authenticated caller
AppointmentsUsingAnyone(uid, row) == uid \in Users

AppointmentsUsing(uid, row) == row.student_id = uid \/ row.staff_id = uid

AppointmentsCheck(uid, row) == row.student_id = uid \/ row.staff_id = uid

\* "Staff can manage own availability" and "Students can read staff availability"
AvailabilitySelectUsing(uid, row) == row.staff_id = uid \/ row.is_available

\* The row with the fields of patch overwritten
Patched(row, patch) ==
    [f \in DOMAIN row |-> IF f \in DOMAIN patch THEN patch[f] ELSE row[f]]

\* supabase.from('appointments').update(patch).eq('id', id) issued by uid:
\* rows the policies hide are not matched (no error); a new row that fails
\* WITH CHECK is an error.
UpdateResult(uid, id, patch) ==
    IF id \in DOMAIN appointments /\ AppointmentsUsing(uid, appointments[id])
    THEN IF AppointmentsCheck(uid, Patched(appointments[id], patch))
         THEN [table |-> [appointments EXCEPT ![id] = Patched(@, patch)], error |-> FALSE]
         ELSE [table |-> appointments, error |-> TRUE]
    ELSE [table |-> appointments, error |-> FALSE]

\* supabase.from('appointments').insert(row) issued by uid; status and
\* staff_notes take the column defaults unless given.
InsertResult(uid, row) ==
    IF AppointmentsCheck(uid, row)
    THEN [table |-> appointments @@ ((inserted + 1) :> row), error |-> FALSE]
    ELSE [table |-> appointments, error |-> TRUE]

\* supabase.from('appointments').delete().eq('id', id) issued by uid
DeleteResult(uid, id) ==
    IF id \in DOMAIN appointments /\ AppointmentsUsing(uid, appointments[id])
    THEN [table |-> [i \in DOMAIN appointments \ {id} |-> appointments[i]], error |-> FALSE]
    ELSE [table |-> appointments, error |-> FALSE]

\* What the page reads of a fetched row
Listed(row) ==
    [staff_id |-> row.staff_id, appointment_date |-> row.appointment_date,
     start_time |-> row.start_time, end_time |-> row.end_time, status |-> row.status]

\* The query of fetchAppointments on a table, for the signed-in user u
ListQueryOn(table, u) ==
    [id \in {i \in DOMAIN table :
                /\ AppointmentsUsing(u, table[i])
                /\ IF Role(u) = "student" THEN table[i].student_id = u
                                           ELSE table[i].staff_id = u}
        |-> Listed(table[id])]

\* Indices of the availability rows the first query of fetchAvailableSlots returns
AvailabilityMatches(u, staff, date) ==
    {i \in DOMAIN staff_availability :
        /\ AvailabilitySelectUsing(u, staff_availability[i])
        /\ staff_availability[i].staff_id = staff
        /\ staff_availability[i].day_of_week = GetDay(date)
        /\ staff_availability[i].is_available}

\* The matching rows of a table, in stored order
RECURSIVE RowsInOrder(_, _, _)
RowsInOrder(rows, keep, i) ==
    IF i > Len(rows) THEN <<>>
    ELSE (IF i \in keep THEN <<rows[i]>> ELSE <<>>) \o RowsInOrder(rows, keep, i + 1)

AvailabilityQuery(u, staff, date) ==
    RowsInOrder(staff_availability, AvailabilityMatches(u, staff, date), 1)

\* The rows the second query of fetchAvailableSlots returns to u
AppointmentsQuery(u, staff, date) ==
    {[start_time |-> appointments[i].start_time, end_time |-> appointments[i].end_time] :
        i \in {j \in DOMAIN appointments :
                /\ AppointmentsUsing(u, appointments[j])
                /\ appointments[j].staff_id = staff
                /\ appointments[j].appointment_date = date
                /\ appointments[j].status \in {"pending", "approved"}}}

(***************************************************************************)
(* The Appointments page.                                                  *)
(***************************************************************************)
CanEditAppointment(u, appointment, clock) ==
    /\ Role(u) # "staff"
    /\ appointment.status = "pending"
    /\ ~IsPast(InstantOf(appointment.appointment_date, appointment.start_time), clock)

\* A cancel button shown for every status
CanCancelAnyStatus(appointment, clock) ==
    ~IsPast(InstantOf(appointment.appointment_date, appointment.start_time), clock)

CanCancelAppointment(appointment, clock) ==
    /\ appointment.status \in {"pending", "approved"}
    /\ ~IsPast(InstantOf(appointment.appointment_date, appointment.start_time), clock)

\* The condition on the Mark Complete button
CanMarkComplete(appointment, clock) ==
    /\ appointment.status = "approved"
    /\ ~IsPast(InstantOf(appointment.appointment_date, appointment.end_time), clock)

\* No overlay (booking modal, notes modal) covers the list of user u
ListClickable(u) ==
    IF u \in Students THEN ~modal[u].isOpen ELSE notesModal[u] = 0

\* The page is mounted for u: component state is fresh and fetchAppointments runs.
OpenAppointmentsPage(u) ==
    /\ \E netOk \in BOOLEAN :
        /\ list' = [list EXCEPT ![u] = IF netOk THEN ListQueryOn(appointments, u)
                                                 ELSE EmptyTable]
        /\ toast' = IF netOk THEN "none" ELSE "error"
    /\ renderedAt' = [renderedAt EXCEPT ![u] = now]
    /\ modal' = IF u \in Students THEN [modal EXCEPT ![u] = ClosedModal] ELSE modal
    /\ notesModal' = IF u \in StaffMembers THEN [notesModal EXCEPT ![u] = 0] ELSE notesModal
    /\ UNCHANGED <<now, staff_availability, appointments, inserted, offPage>>

\* updateAppointmentStatus(appointmentId, newStatus, notes?) called by u;
\* withNotes tells whether the notes argument is given.
UpdateAppointmentStatus(u, id, newStatus, withNotes, notes) ==
    \E netOk \in BOOLEAN :
        LET updateData == IF withNotes
                          THEN [status |-> newStatus, staff_notes |-> notes]
                          ELSE [status |-> newStatus]
            res == UpdateResult(u, id, updateData)
        IN  IF netOk /\ ~res.error
            THEN /\ appointments' = res.table
                 /\ toast' = "success"
                 /\ list' = [list EXCEPT ![u] = ListQueryOn(res.table, u)]
            ELSE /\ toast' = "error"
                 /\ UNCHANGED <<appointments, list>>

\* A status button of the list: the handler re-renders the page only through
\* the fetchAppointments that follows a successful update.
StatusButton(u, id, newStatus) ==
    /\ UpdateAppointmentStatus(u, id, newStatus, FALSE, <<>>)
    /\ renderedAt' = [renderedAt EXCEPT ![u] = IF toast' = "success" THEN now ELSE @]
    /\ UNCHANGED <<now, staff_availability, inserted, modal, notesModal, offPage>>

CancelAppointment(u, id) ==
    /\ Role(u) = "student" /\ ListClickable(u)
    /\ id \in DOMAIN list[u]
    /\ CanCancelAppointment(list[u][id], renderedAt[u])
    /\ StatusButton(u, id, "cancelled")

ApproveAppointment(u, id) ==
    /\ Role(u) = "staff" /\ ListClickable(u)
    /\ id \in DOMAIN list[u]
    /\ list[u][id].status = "pending"
    /\ StatusButton(u, id, "approved")

DeclineAppointment(u, id) ==
    /\ Role(u) = "staff" /\ ListClickable(u)
    /\ id \in DOMAIN list[u]
    /\ list[u][id].status = "pending"
    /\ StatusButton(u, id, "declined")

MarkComplete(u, id) ==
    /\ Role(u) = "staff" /\ ListClickable(u)
    /\ id \in DOMAIN list[u]
    /\ CanMarkComplete(list[u][id], renderedAt[u])
    /\ StatusButton(u, id, "completed")

\* deleteAppointment, confirmed by the user
DeleteAppointment(u, id) ==
    /\ Role(u) = "student" /\ ListClickable(u)
    /\ id \in DOMAIN list[u]
    /\ list[u][id].status = "pending"
    /\ \E netOk \in BOOLEAN :
        LET res == DeleteResult(u, id)
        IN  IF netOk /\ ~res.error
            THEN /\ appointments' = res.table
                 /\ toast' = "success"
                 /\ list' = [list EXCEPT ![u] = ListQueryOn(res.table, u)]
                 /\ renderedAt' = [renderedAt EXCEPT ![u] = now]
            ELSE /\ toast' = "error"
                 /\ UNCHANGED <<appointments, list, renderedAt>>
    /\ UNCHANGED <<now, staff_availability, inserted, modal, notesModal, offPage>>

\* The notes button of a staff row: the modal keeps the row as listed.
OpenStaffNotes(u, id) ==
    /\ Role(u) = "staff" /\ ListClickable(u)
    /\ id \in DOMAIN list[u]
    /\ notesModal' = [notesModal EXCEPT ![u] = id]
    /\ renderedAt' = [renderedAt EXCEPT ![u] = now]
    /\ toast' = "none"
    /\ UNCHANGED <<now, staff_availability, appointments, inserted, list, modal, offPage>>

CloseStaffNotes(u) ==
    /\ u \in StaffMembers /\ notesModal[u] # 0
    /\ notesModal' = [notesModal EXCEPT ![u] = 0]
    /\ renderedAt' = [renderedAt EXCEPT ![u] = now]
    /\ toast' = "none"
    /\ UNCHANGED <<now, staff_availability, appointments, inserted, list, modal, offPage>>

\* handleStaffNotesSubmit with the text typed into the modal: the update
\* carries the status of the row as the modal holds it.
HandleStaffNotesSubmit(u, text) ==
    /\ u \in StaffMembers /\ notesModal[u] # 0
    /\ UpdateAppointmentStatus(u, notesModal[u], list[u][notesModal[u]].status, TRUE, text)
    /\ notesModal' = [notesModal EXCEPT ![u] = 0]
    /\ renderedAt' = [renderedAt EXCEPT ![u] = now]
    /\ UNCHANGED <<now, staff_availability, inserted, modal, offPage>>

(***************************************************************************)
(* The booking modal (AppointmentModal).                                   *)
(***************************************************************************)
MaxInFlight == 1

\* u is a student with fewer than MaxInFlight slot requests in flight
MayFetch(u) == u \in Students /\ Cardinality(modal[u].inflight) < MaxInFlight

\* The effect on [selectedStaffId, selectedDate]: fetchAvailableSlots starts
\* for the values of the form m and its request is in flight.
WithSlotFetch(m) ==
    IF m.staff_id # "" /\ m.appointment_date # 0
    THEN [m EXCEPT !.loadingSlots = TRUE,
                   !.inflight = @ \cup {[staff_id |-> m.staff_id,
                                         appointment_date |-> m.appointment_date]}]
    ELSE m

\* "Book Appointment": the modal opens on an empty form.
OpenBookModal(u) ==
    /\ u \in Students /\ ~modal[u].isOpen
    /\ modal' = [modal EXCEPT ![u].isOpen = TRUE, ![u].editing = 0]
    /\ renderedAt' = [renderedAt EXCEPT ![u] = now]
    /\ toast' = "none"
    /\ UNCHANGED <<now, staff_availability, appointments, inserted, list, notesModal, offPage>>

\* The edit button of a listed row: the form takes the row's values.
OpenEditModal(u, id) ==
    /\ u \in Students /\ ~modal[u].isOpen
    /\ id \in DOMAIN list[u]
    /\ CanEditAppointment(u, list[u][id], renderedAt[u])
    /\ modal' = [modal EXCEPT ![u] =
                    WithSlotFetch([@ EXCEPT !.isOpen = TRUE, !.editing = id,
                                            !.staff_id = list[u][id].staff_id,
                                            !.appointment_date = list[u][id].appointment_date,
                                            !.start_time = list[u][id].start_time,
                                            !.end_time = list[u][id].end_time])]
    /\ renderedAt' = [renderedAt EXCEPT ![u] = now]
    /\ toast' = "none"
    /\ UNCHANGED <<now, staff_availability, appointments, inserted, list, notesModal, offPage>>

\* The staff <select> changes.
SelectStaff(u, staff) ==
    /\ u \in Students /\ modal[u].isOpen
    /\ staff # modal[u].staff_id
    /\ modal' = [modal EXCEPT ![u] = WithSlotFetch([@ EXCEPT !.staff_id = staff])]
    /\ renderedAt' = [renderedAt EXCEPT ![u] = now]
    /\ toast' = "none"
    /\ UNCHANGED <<now, staff_availability, appointments, inserted, list, notesModal, offPage>>

\* The date input changes, within its min (today) and max (today + 30).
SelectDate(u, date) ==
    /\ u \in Students /\ modal[u].isOpen
    /\ date # modal[u].appointment_date
    /\ Today(renderedAt[u]) <= date /\ date <= Today(renderedAt[u]) + 30
    /\ modal' = [modal EXCEPT ![u] = WithSlotFetch([@ EXCEPT !.appointment_date = date])]
    /\ renderedAt' = [renderedAt EXCEPT ![u] = now]
    /\ toast' = "none"
    /\ UNCHANGED <<now, staff_availability, appointments, inserted, list, notesModal, offPage>>

\* A fetchAvailableSlots request of u completes: both queries answered, the
\* slots generated and stored; or a query failed.
FetchAvailableSlotsDone(u, req) ==
    /\ u \in Students /\ req \in modal[u].inflight
    /\ \E netOk \in BOOLEAN :
        /\ modal' = [modal EXCEPT
                ![u].availableSlots =
                    IF netOk
                    THEN GenerateSlots(
                            AvailabilityQuery(u, req.staff_id, req.appointment_date),
                            AppointmentsQuery(u, req.staff_id, req.appointment_date))
                    ELSE @,
                ![u].loadingSlots = FALSE,
                ![u].inflight = @ \ {req}]
        /\ toast' = IF netOk THEN "none" ELSE "error"
    /\ renderedAt' = [renderedAt EXCEPT ![u] = now]
    /\ UNCHANGED <<now, staff_availability, appointments, inserted, list, notesModal, offPage>>

\* A slot radio is clicked: start_time by the registered input, end_time by setValue.
SelectSlot(u, i) ==
    /\ u \in Students /\ modal[u].isOpen /\ ~modal[u].loadingSlots
    /\ i \in DOMAIN modal[u].availableSlots
    /\ modal' = [modal EXCEPT ![u].start_time = modal[u].availableSlots[i].start_time,
                              ![u].end_time = modal[u].availableSlots[i].end_time]
    /\ renderedAt' = [renderedAt EXCEPT ![u] = now]
    /\ toast' = "none"
    /\ UNCHANGED <<now, staff_availability, appointments, inserted, list, notesModal, offPage>>

\* onClose: isModalOpen false, editingAppointment null, and the form is reset.
Closed(m) ==
    [m EXCEPT !.isOpen = FALSE, !.editing = 0, !.staff_id = "", !.appointment_date = 0,
              !.start_time = NoTime, !.end_time = NoTime]

CloseModal(u) ==
    /\ u \in Students /\ modal[u].isOpen
    /\ modal' = [modal EXCEPT ![u] = Closed(@)]
    /\ renderedAt' = [renderedAt EXCEPT ![u] = now]
    /\ toast' = "none"
    /\ UNCHANGED <<now, staff_availability, appointments, inserted, list, notesModal, offPage>>

\* appointmentData of onSubmit
AppointmentData(u) ==
    [student_id |-> u,
     staff_id |-> modal[u].staff_id,
     appointment_date |-> modal[u].appointment_date,
     start_time |-> modal[u].start_time,
     end_time |-> modal[u].end_time,
     status |-> "pending"]

\* The required rules of the form pass.
FormValid(u) ==
    /\ modal[u].staff_id # ""
    /\ modal[u].appointment_date # 0
    /\ modal[u].start_time # NoTime

\* onSubmit: update of the edited row or insert of a new one, then refresh and close.
SubmitAppointment(u) ==
    /\ u \in Students /\ modal[u].isOpen /\ FormValid(u)
    /\ \E netOk \in BOOLEAN :
        LET res == IF modal[u].editing # 0
                   THEN UpdateResult(u, modal[u].editing, AppointmentData(u))
                   ELSE InsertResult(u, AppointmentData(u) @@ [staff_notes |-> <<>>])
        IN  IF netOk /\ ~res.error
            THEN /\ appointments' = res.table
                 /\ inserted' = IF modal[u].editing # 0 THEN inserted ELSE inserted + 1
                 /\ toast' = "success"
                 /\ list' = [list EXCEPT ![u] = ListQueryOn(res.table, u)]
                 /\ modal' = [modal EXCEPT ![u] = Closed(@)]
            ELSE /\ toast' = "error"
                 /\ UNCHANGED <<appointments, inserted, list, modal>>
    /\ renderedAt' = [renderedAt EXCEPT ![u] = now]
    /\ UNCHANGED <<now, staff_availability, notesModal, offPage>>

(***************************************************************************)
(* The availability form (AvailabilityModal.onSubmit) and the clock.       *)
(***************************************************************************)
AddAvailability(u, day, w) ==
    /\ u \in StaffMembers
    /\ \E netOk \in BOOLEAN :
        IF netOk
        THEN /\ staff_availability' =
                    Append(staff_availability,
                           [staff_id |-> u, day_of_week |-> day,
                            start_time |-> w.start_time, end_time |-> w.end_time,
                            is_available |-> TRUE])
             /\ toast' = "success"
        ELSE /\ toast' = "error"
             /\ UNCHANGED staff_availability
    /\ UNCHANGED <<now, appointments, inserted, list, renderedAt, modal, notesModal, offPage>>

Tick ==
    /\ \E t \in ClockPoints : t > now /\ now' = t
    /\ UNCHANGED <<staff_availability, appointments, inserted, list, renderedAt, modal,
                   notesModal, toast, offPage>>

(***************************************************************************)
(* Specification of the appointment lifecycle: one student and the staff   *)
(* member open the page, book, edit, cancel, approve, decline, complete,   *)
(* delete and annotate, while the clock advances.  At most MaxAppointments *)
(* rows are ever inserted.                                                 *)
(***************************************************************************)
Actors == {"stuA"} \cup StaffMembers

Next ==
    \/ Tick
    \/ \E u \in Actors : OpenAppointmentsPage(u)
    \/ \E u \in Actors : \E id \in DOMAIN list[u] : CancelAppointment(u, id)
    \/ \E u \in Actors : \E id \in DOMAIN list[u] : ApproveAppointment(u, id)
    \/ \E u \in Actors : \E id \in DOMAIN list[u] : DeclineAppointment(u, id)
    \/ \E u \in Actors : \E id \in DOMAIN list[u] : MarkComplete(u, id)
    \/ \E u \in Actors : \E id \in DOMAIN list[u] : DeleteAppointment(u, id)
    \/ \E u \in Actors : \E id \in DOMAIN list[u] : OpenStaffNotes(u, id)
    \/ \E u \in Actors : CloseStaffNotes(u)
    \/ \E u \in Actors, text \in NoteTexts : HandleStaffNotesSubmit(u, text)
    \/ \E u \in Actors : OpenBookModal(u)
    \/ \E u \in Actors : \E id \in DOMAIN list[u] : MayFetch(u) /\ OpenEditModal(u, id)
    \/ \E u \in Actors, staff \in StaffMembers : MayFetch(u) /\ SelectStaff(u, staff)
    \/ \E u \in Actors, date \in Dates : MayFetch(u) /\ SelectDate(u, date)
    \/ \E u \in Actors \cap Students : \E req \in modal[u].inflight :
            FetchAvailableSlotsDone(u, req)
    \/ \E u \in Actors \cap Students : \E i \in DOMAIN modal[u].availableSlots :
            SelectSlot(u, i)
    \/ \E u \in Actors : CloseModal(u)
    \/ \E u \in Actors \cap Students :
            /\ modal[u].editing = 0 => inserted < MaxAppointments
            /\ SubmitAppointment(u)
    \/ \E u \in Actors, d \in Dates, w \in WindowChoices :
            Len(staff_availability) < MaxAvailability /\ AddAvailability(u, GetDay(d), w)

Init == AppInit /\ GenIdle

Spec == Init /\ [][Next]_vars

(***************************************************************************)
(* Specification of concurrent booking: the staff member enters            *)
(* availability and both students use the booking modal.  At most          *)
(* MaxBookings rows are ever inserted.                                     *)
(***************************************************************************)
MaxBookings == 2

BookingNext ==
    \/ \E u \in StaffMembers, d \in Dates, w \in WindowChoices :
            Len(staff_availability) < MaxAvailability /\ AddAvailability(u, GetDay(d), w)
    \/ \E u \in Students : OpenBookModal(u)
    \/ \E u \in Students, staff \in StaffMembers : MayFetch(u) /\ SelectStaff(u, staff)
    \/ \E u \in Students, date \in Dates : MayFetch(u) /\ SelectDate(u, date)
    \/ \E u \in Students : \E req \in modal[u].inflight : FetchAvailableSlotsDone(u, req)
    \/ \E u \in Students : \E i \in DOMAIN modal[u].availableSlots : SelectSlot(u, i)
    \/ \E u \in Students : CloseModal(u)
    \/ \E u \in Students : inserted < MaxBookings /\ SubmitAppointment(u)

SpecBooking == Init /\ [][BookingNext]_vars

(***************************************************************************)
(* Specification of serial booking: as the lifecycle, but the booking form *)
(* is submitted only when no slot request is in flight, the slot list      *)
(* shown is the one the generator gives for the store as it is now, and    *)
(* the slot submitted is one of the list.                                  *)
(***************************************************************************)
\* Number of rows ever inserted under SpecSerial
MaxSerialBookings == 2

\* The slot list of u's modal is the generator's answer for the current store
SlotListCurrent(u) ==
    /\ modal[u].inflight = {} /\ ~modal[u].loadingSlots
    /\ modal[u].availableSlots =
          GenerateSlots(AvailabilityQuery(u, modal[u].staff_id, modal[u].appointment_date),
                        AppointmentsQuery(u, modal[u].staff_id, modal[u].appointment_date))
    /\ \E i \in DOMAIN modal[u].availableSlots :
          /\ modal[u].availableSlots[i].start_time = modal[u].start_time
          /\ modal[u].availableSlots[i].end_time = modal[u].end_time

SerialNext ==
    \/ Tick
    \/ \E u \in Actors : OpenAppointmentsPage(u)
    \/ \E u \in Actors : \E id \in DOMAIN list[u] : CancelAppointment(u, id)
    \/ \E u \in Actors : \E id \in DOMAIN list[u] : ApproveAppointment(u, id)
    \/ \E u \in Actors : \E id \in DOMAIN list[u] : DeclineAppointment(u, id)
    \/ \E u \in Actors : \E id \in DOMAIN list[u] : MarkComplete(u, id)
    \/ \E u \in Actors : OpenBookModal(u)
    \/ \E u \in Actors : \E id \in DOMAIN list[u] : MayFetch(u) /\ OpenEditModal(u, id)
    \/ \E u \in Actors, staff \in StaffMembers : MayFetch(u) /\ SelectStaff(u, staff)
    \/ \E u \in Actors, date \in Dates : MayFetch(u) /\ SelectDate(u, date)
    \/ \E u \in Actors \cap Students : \E req \in modal[u].inflight :
            FetchAvailableSlotsDone(u, req)
    \/ \E u \in Actors \cap Students : \E i \in DOMAIN modal[u].availableSlots :
            SelectSlot(u, i)
    \/ \E u \in Actors : CloseModal(u)
    \/ \E u \in Actors \cap Students :
            /\ modal[u].editing = 0 => inserted < MaxSerialBookings
            /\ SlotListCurrent(u)
            /\ SubmitAppointment(u)
    \/ \E u \in Actors, d \in Dates, w \in WindowChoices :
            Len(staff_availability) < MaxAvailability /\ AddAvailability(u, GetDay(d), w)

SpecSerial == Init /\ [][SerialNext]_vars

(***************************************************************************)
(* Specification of overlapping availability: the staff member enters up   *)
(* to MaxOverlapRows windows out of two that overlap, for the day of date  *)
(* 1, and one student books from the modal.                                *)
(***************************************************************************)
MaxOverlapRows == 2

OverlapChoices == {[start_time |-> HHMM(9, 0), end_time |-> HHMM(11, 0)],
                   [start_time |-> HHMM(10, 0), end_time |-> HHMM(12, 0)]}

OverlapNext ==
    \/ \E u \in StaffMembers, w \in OverlapChoices :
            Len(staff_availability) < MaxOverlapRows /\ AddAvailability(u, GetDay(1), w)
    \/ OpenBookModal("stuA")
    \/ \E staff \in StaffMembers : MayFetch("stuA") /\ SelectStaff("stuA", staff)
    \/ MayFetch("stuA") /\ SelectDate("stuA", 1)
    \/ \E req \in modal["stuA"].inflight : FetchAvailableSlotsDone("stuA", req)
    \/ \E i \in DOMAIN modal["stuA"].availableSlots : SelectSlot("stuA", i)
    \/ CloseModal("stuA")
    \/ inserted < MaxBookings /\ SubmitAppointment("stuA")

SpecOverlap == Init /\ [][OverlapNext]_vars

(***************************************************************************)
(* Specification of racing slot requests: one student changes the staff    *)
(* member or the date while earlier fetchAvailableSlots requests are still *)
(* in flight, up to MaxRacing at a time; the responses arrive in any order.*)
(***************************************************************************)
MaxRacing == 2

RaceNext ==
    \/ \E u \in StaffMembers, d \in Dates, w \in WindowChoices :
            Len(staff_availability) < MaxAvailability /\ AddAvailability(u, GetDay(d), w)
    \/ OpenBookModal("stuA")
    \/ \E staff \in StaffMembers :
            Cardinality(modal["stuA"].inflight) < MaxRacing /\ SelectStaff("stuA", staff)
    \/ \E date \in Dates :
            Cardinality(modal["stuA"].inflight) < MaxRacing /\ SelectDate("stuA", date)
    \/ \E req \in modal["stuA"].inflight : FetchAvailableSlotsDone("stuA", req)
    \/ CloseModal("stuA")
    \/ Tick

SpecRace == Init /\ [][RaceNext]_vars

(***************************************************************************)
(* Specification of the store as its policies define it: any authenticated *)
(* user sends insert, update and delete requests on appointments straight  *)
(* to the store, which applies the row-level security policies.            *)
(***************************************************************************)
\* Rows a caller may ask to insert.
\* Rows inserted by direct requests
MaxStoreRows == 1

RequestRows ==
    [student_id : Students, staff_id : StaffMembers, appointment_date : {1},
     start_time : {HHMM(9, 0)}, end_time : {HHMM(10, 0)},
     status : {"pending"}, staff_notes : {<<>>}]

\* select * from appointments issued by uid: the ids of the rows returned
SelectResult(uid) ==
    {id \in DOMAIN appointments : AppointmentsUsing(uid, appointments[id])}

\* Updates a caller may ask for.
RequestPatches ==
    [status : Statuses] \cup [student_id : Users] \cup [staff_id : Users]

ApiInsert(caller, row) ==
    /\ inserted < MaxStoreRows
    /\ LET res == InsertResult(caller, row)
       IN  /\ appointments' = res.table
           /\ inserted' = IF res.error THEN inserted ELSE inserted + 1
           /\ reply' = [op |-> "insert", caller |-> caller, error |-> res.error,
                        count |-> IF res.error THEN 0 ELSE 1, rows |-> {}]
    /\ UNCHANGED <<now, staff_availability, list, renderedAt, modal, notesModal, toast,
                   genVars, authVars, fetches, notifications>>

ApiUpdate(caller, id, patch) ==
    /\ id \in DOMAIN appointments
    /\ LET res == UpdateResult(caller, id, patch)
       IN  /\ appointments' = res.table
           /\ reply' = [op |-> "update", caller |-> caller, error |-> res.error,
                        count |-> IF ~res.error /\ AppointmentsUsing(caller, appointments[id])
                                  THEN 1 ELSE 0,
                        rows |-> {}]
    /\ UNCHANGED <<now, staff_availability, inserted, list, renderedAt, modal, notesModal,
                   toast, genVars, authVars, fetches, notifications>>

ApiDelete(caller, id) ==
    /\ id \in DOMAIN appointments
    /\ LET res == DeleteResult(caller, id)
       IN  /\ appointments' = res.table
           /\ reply' = [op |-> "delete", caller |-> caller, error |-> res.error,
                        count |-> IF AppointmentsUsing(caller, appointments[id]) THEN 1 ELSE 0,
                        rows |-> {}]
    /\ UNCHANGED <<now, staff_availability, inserted, list, renderedAt, modal, notesModal,
                   toast, genVars, authVars, fetches, notifications>>

ApiSelect(caller) ==
    /\ reply' = [op |-> "select", caller |-> caller, error |-> FALSE,
                 count |-> Cardinality(SelectResult(caller)), rows |-> SelectResult(caller)]
    /\ UNCHANGED <<now, staff_availability, appointments, inserted, list, renderedAt, modal,
                   notesModal, toast, genVars, authVars, fetches, notifications>>

StoreNext ==
    \/ \E caller \in Users : ApiSelect(caller)
    \/ \E caller \in Users, row \in RequestRows : ApiInsert(caller, row)
    \/ \E caller \in Users : \E id \in DOMAIN appointments : \E patch \in RequestPatches :
            ApiUpdate(caller, id, patch)
    \/ \E caller \in Users : \E id \in DOMAIN appointments : ApiDelete(caller, id)

SpecStore == Init /\ [][StoreNext]_vars

(***************************************************************************)
(* AuthProvider: initializeAuth with its retries, retryConnection,         *)
(* demoLogin, signUp, signIn and updateProfile.  A collaborator call ends  *)
(* with an answer, an error result, a thrown exception or, where the code  *)
(* races it against a timer, a timeout.                                    *)
(***************************************************************************)
MaxRetries == 3

\* milliseconds
RetryDelay == 2000

\* identities created by signUp
MaxSignUps == 1

\* the ids the auth service gives to new identities, in order
NewIds == <<"u1", "u2", "u3">>

nonAuth == <<genVars, now, staff_availability, appointments, inserted, list, renderedAt,
             modal, notesModal, toast, reply, fetches, notifications, sessionVars>>

\* enhancedSupabase.auth.getSession: the answer is passed on; an exception or
\* the 5 s timeout becomes { data: { session: null }, error }
GetSessionResult(raw) ==
    IF raw \in {"session", "nosession"}
    THEN [session |-> raw = "session", error |-> FALSE]
    ELSE [session |-> FALSE, error |-> TRUE]

\* enhancedSupabase.auth.signUp / signInWithPassword: the answer is passed on;
\* an exception or the 10 s timeout becomes an error result
EnhancedResult(raw) ==
    IF raw \in {"user+session", "user", "ok"}
    THEN [ok |-> TRUE, error |-> FALSE]
    ELSE [ok |-> FALSE, error |-> TRUE]

\* a catch block that retries whatever the attempt number
RetriesLeftAlways(attempt) == TRUE

\* if (attempt < maxRetries)
RetriesLeft(attempt) == attempt < MaxRetries

\* the catch block of initializeAuth: the run and the auth state after it
CatchInit(run, a) ==
    IF RetriesLeft(run.attempt)
    THEN [run |-> [run EXCEPT !.pc = "sleep", !.delay = RetryDelay], auth |-> a]
    ELSE [run |-> [run EXCEPT !.pc = "ended", !.outcome = "failed"],
          auth |-> [a EXCEPT !.error = "Connection failed", !.isDemo = TRUE,
                             !.loading = FALSE]]

\* initializeAuth(attempt) up to its first await: setError(null), the
\* configuration check, the call of getSession
BeginAttempt(n, started, a) ==
    LET run == [pc |-> "session", attempt |-> n, started |-> started, delay |-> 0,
                outcome |-> "none"]
        cleared == [a EXCEPT !.error = "null"]
    IN  IF configured
        THEN [run |-> [run EXCEPT !.started = started + 1], auth |-> cleared]
        ELSE CatchInit(run, cleared)

\* setLoading(false); setRetryCount(0) at the end of the try block
Succeeded(run, a) ==
    [run |-> [run EXCEPT !.pc = "ended", !.outcome = "ok"],
     auth |-> [a EXCEPT !.loading = FALSE, !.retryCount = 0]]

\* useEffect -> setupAuth -> initializeAuth()
SetupAuth ==
    /\ initRun.pc = "mounted"
    /\ LET r == BeginAttempt(1, 0, auth)
       IN  initRun' = r.run /\ auth' = r.auth
    /\ UNCHANGED <<configured, call, user_profiles, identities, nonAuth>>

\* getSession settles
SessionAnswer(raw) ==
    /\ initRun.pc = "session"
    /\ LET res == GetSessionResult(raw)
           r == IF res.error THEN CatchInit(initRun, auth)
                ELSE IF res.session
                THEN [run |-> [initRun EXCEPT !.pc = "profile"],
                      auth |-> [auth EXCEPT !.user = SessionUser]]
                ELSE Succeeded(initRun, [auth EXCEPT !.user = ""])
       IN  initRun' = r.run /\ auth' = r.auth
    /\ UNCHANGED <<configured, call, user_profiles, identities, nonAuth>>

\* The role stored in the profile row of uid
RoleOfRow(uid) == IF uid = SessionUser THEN "staff" ELSE "student"

\* The row .eq('user_id', uid).single() returns
ProfileRow(uid) == [user_id |-> uid, role |-> RoleOfRow(uid)]

\* createDemoProfile(role)
DemoProfile(role) == [user_id |-> "demo-user-id", role |-> role]

\* Whether user_profiles holds a row of uid
HasProfile(uid) == \E i \in DOMAIN user_profiles : user_profiles[i] = uid

\* Number of rows of uid
ProfileCount(uid) == Cardinality({i \in DOMAIN user_profiles : user_profiles[i] = uid})

\* fetchProfile inside initializeAuth settles: the row, or an error, an
\* exception or the 5 s timeout, which fetchProfile swallows
ProfileAnswer(raw) ==
    /\ initRun.pc = "profile"
    /\ raw = "ok" => HasProfile(auth.user)
    /\ LET a == IF raw = "ok" THEN [auth EXCEPT !.profile = ProfileRow(auth.user)]
                ELSE auth
           r == Succeeded(initRun, a)
       IN  initRun' = r.run /\ auth' = r.auth
    /\ UNCHANGED <<configured, call, user_profiles, identities, nonAuth>>

\* sleep(retryDelay) is over: setRetryCount(attempt); initializeAuth(attempt + 1)
Wake ==
    /\ initRun.pc = "sleep"
    /\ initRun.attempt <= MaxRetries
    /\ LET r == BeginAttempt(initRun.attempt + 1, initRun.started,
                             [auth EXCEPT !.retryCount = initRun.attempt])
       IN  initRun' = r.run /\ auth' = r.auth
    /\ UNCHANGED <<configured, call, user_profiles, identities, nonAuth>>

\* the Retry button, rendered while error is set
RetryConnection ==
    /\ auth.error # "null"
    /\ LET r == BeginAttempt(1, 0, [auth EXCEPT !.loading = TRUE, !.error = "null",
                                                !.isDemo = FALSE, !.retryCount = 0])
       IN  initRun' = r.run /\ auth' = r.auth
    /\ UNCHANGED <<configured, call, user_profiles, identities, nonAuth>>

\* the demo buttons, rendered while error is set
DemoLoggedIn(a, role) ==
    [a EXCEPT !.isDemo = TRUE, !.profile = DemoProfile(role), !.error = "null",
              !.loading = FALSE]

DemoLogin(role) ==
    /\ auth.error # "null"
    /\ auth' = DemoLoggedIn(auth, role)
    /\ UNCHANGED <<configured, initRun, call, user_profiles, identities, nonAuth>>

\* What a call returns: resolved with { error }
Returned(fn, isError, hasFailed, uid) ==
    [fn |-> fn, pc |-> "returned", settled |-> "resolved", error |-> isError,
     failed |-> hasFailed, uid |-> uid, session |-> FALSE]

\* A call waiting for a collaborator
Awaiting(fn, pc, uid, session) ==
    [fn |-> fn, pc |-> pc, settled |-> "pending", error |-> FALSE, failed |-> FALSE,
     uid |-> uid, session |-> session]

\* signUp / signIn called: setError(null); in demo mode return the demo
\* error, else call the auth collaborator
CallAuth(fn) ==
    /\ call.pc \in {"idle", "returned"}
    /\ auth' = [auth EXCEPT !.error = "null"]
    /\ call' = IF auth.isDemo THEN Returned(fn, TRUE, FALSE, "")
                               ELSE Awaiting(fn, "auth", "", FALSE)
    /\ UNCHANGED <<configured, initRun, user_profiles, identities, nonAuth>>

\* supabase.auth.signUp settles
SignUpAuthAnswer(raw) ==
    /\ call.fn = "signUp" /\ call.pc = "auth"
    /\ IF EnhancedResult(raw).ok
       THEN /\ identities < MaxSignUps /\ identities < Len(NewIds)
            /\ identities' = identities + 1
            /\ call' = Awaiting("signUp", "insert", NewIds[identities + 1],
                                raw = "user+session")
       ELSE /\ call' = Returned("signUp", TRUE, TRUE, "")
            /\ UNCHANGED identities
    /\ UNCHANGED <<configured, auth, initRun, user_profiles, nonAuth>>

\* "Users can insert own profile" WITH CHECK (auth.uid() = user_id), and
\* UNIQUE(user_id)
ProfileInsertAllowed(hasSession, uid) == hasSession /\ ~HasProfile(uid)

\* the insert into user_profiles settles: the store's verdict, an error
\* result of the transport, or an exception
SignUpInsertAnswer(raw) ==
    /\ call.fn = "signUp" /\ call.pc = "insert"
    /\ LET stored == raw = "reach" /\ ProfileInsertAllowed(call.session, call.uid)
       IN  /\ user_profiles' = IF stored THEN Append(user_profiles, call.uid)
                                          ELSE user_profiles
           /\ call' = IF raw = "throw" THEN Returned("signUp", TRUE, TRUE, call.uid)
                       ELSE Returned("signUp", FALSE, ~stored, call.uid)
    /\ UNCHANGED <<configured, auth, initRun, identities, nonAuth>>

\* supabase.auth.signInWithPassword settles
SignInAnswer(raw) ==
    /\ call.fn = "signIn" /\ call.pc = "auth"
    /\ call' = Returned("signIn", EnhancedResult(raw).error, EnhancedResult(raw).error, "")
    /\ UNCHANGED <<configured, auth, initRun, user_profiles, identities, nonAuth>>

\* updateProfile called: throws inside its try when !user || isDemo
CallUpdateProfile ==
    /\ call.pc \in {"idle", "returned"}
    /\ call' = IF auth.user = "" \/ auth.isDemo
               THEN Returned("updateProfile", TRUE, FALSE, "")
               ELSE Awaiting("updateProfile", "update", auth.user, TRUE)
    /\ UNCHANGED <<configured, auth, initRun, user_profiles, identities, nonAuth>>

\* the update of user_profiles settles
UpdateProfileAnswer(raw) ==
    /\ call.fn = "updateProfile" /\ call.pc = "update"
    /\ call' = IF raw = "ok" THEN [call EXCEPT !.pc = "refetch"]
                             ELSE Returned("updateProfile", TRUE, TRUE, call.uid)
    /\ UNCHANGED <<configured, auth, initRun, user_profiles, identities, nonAuth>>

\* fetchProfile after the update settles; its failures are swallowed
RefetchAnswer(raw) ==
    /\ call.fn = "updateProfile" /\ call.pc = "refetch"
    /\ raw = "ok" => HasProfile(call.uid)
    /\ auth' = IF raw = "ok" THEN [auth EXCEPT !.profile = ProfileRow(call.uid)] ELSE auth
    /\ call' = Returned("updateProfile", FALSE, FALSE, call.uid)
    /\ UNCHANGED <<configured, initRun, user_profiles, identities, nonAuth>>

\* The steps of a running initializeAuth that a timer guarantees: getSession
\* and fetchProfile are raced against timeouts, sleep ends
InitRunStep ==
    \/ \E raw \in {"session", "nosession", "error", "throw", "timeout"} : SessionAnswer(raw)
    \/ \E raw \in {"ok", "error", "throw", "timeout"} : ProfileAnswer(raw)
    \/ Wake

AuthNext ==
    \/ SetupAuth
    \/ InitRunStep
    \/ RetryConnection
    \/ \E role \in {"student", "staff"} : DemoLogin(role)
    \/ \E fn \in {"signUp", "signIn"} : CallAuth(fn)
    \/ \E raw \in {"user+session", "user", "error", "throw", "timeout"} : SignUpAuthAnswer(raw)
    \/ \E raw \in {"reach", "error", "throw"} : SignUpInsertAnswer(raw)
    \/ \E raw \in {"ok", "error", "throw", "timeout"} : SignInAnswer(raw)
    \/ CallUpdateProfile
    \/ \E raw \in {"ok", "error", "throw"} : UpdateProfileAnswer(raw)
    \/ \E raw \in {"ok", "error", "throw", "timeout"} : RefetchAnswer(raw)

AuthInit == GenIdle /\ PagesInit /\ AuthMounted /\ configured \in BOOLEAN

\* useEffect runs after mount; the timers of a running initializeAuth fire
SpecAuth ==
    AuthInit /\ [][AuthNext]_vars /\ WF_vars(SetupAuth) /\ WF_vars(InitRunStep)

(***************************************************************************)
(* The session after initialisation: the onAuthStateChange callback, the   *)
(* fetchProfile calls it starts, signOut, and the router with              *)
(* ProtectedRoute.                                                         *)
(***************************************************************************)
\* fetchProfile calls of the callback awaited at one time
MaxProfileFetches == 2

\* The identities an auth event can carry; "" is no session
EventUsers == {"", SessionUser, NewIds[1]}

Paths == {"/login", "/dashboard", "/availability", "/reports"}

\* requiredRole of the route of a path ("" when none is given)
RequiredRole(path) == IF path \in {"/availability", "/reports"} THEN "staff" ELSE ""

\* A route guard that skips the role comparison
ProtectedRouteAnyRole(requiredRole) ==
    IF auth.loading THEN "loading"
    ELSE IF auth.error # "null" THEN "error"
    ELSE IF auth.user = "" \/ auth.profile = NoProfile THEN "/login"
    ELSE "children"

\* What ProtectedRoute renders: the spinner, the connection-error screen, a
\* Navigate to a path, or its children
ProtectedRoute(requiredRole) ==
    IF auth.loading THEN "loading"
    ELSE IF auth.error # "null" THEN "error"
    ELSE IF auth.user = "" \/ auth.profile = NoProfile THEN "/login"
    ELSE IF requiredRole # "" /\ auth.profile.role # requiredRole THEN "/dashboard"
    ELSE "children"

authOnly == <<genVars, now, staff_availability, appointments, inserted, list, renderedAt,
              modal, notesModal, toast, reply, fetches, notifications>>

\* setupAuth after await initializeAuth(): mounted && !isDemo with the isDemo
\* of the first render, so the callback is registered whatever the outcome
Subscribe ==
    /\ initRun.pc = "ended" /\ ~subscribed
    /\ subscribed' = TRUE
    /\ UNCHANGED <<configured, auth, initRun, call, user_profiles, identities,
                   profileFetches, location, authOnly>>

\* The callback's synchronous part for an event carrying the session of u:
\* setSession, setUser, setError(null), then fetchProfile(u) or setProfile(null)
OnAuthStateChange(a, u) ==
    [a EXCEPT !.user = u, !.error = "null",
              !.profile = IF u = "" THEN NoProfile ELSE @]

\* An auth event (sign-in, sign-out, another identity) reaches the callback
AuthStateChange(u) ==
    /\ subscribed
    /\ u # "" => Cardinality(profileFetches \cup {u}) <= MaxProfileFetches
    /\ auth' = OnAuthStateChange(auth, u)
    /\ profileFetches' = IF u = "" THEN profileFetches ELSE profileFetches \cup {u}
    /\ UNCHANGED <<configured, initRun, call, user_profiles, identities, subscribed,
                   location, authOnly>>

\* A fetchProfile of the callback settles: setProfile(data), or the error,
\* exception or 5 s timeout that fetchProfile swallows
EventProfileAnswer(uid, raw) ==
    /\ uid \in profileFetches
    /\ raw = "ok" => HasProfile(uid)
    /\ auth' = IF raw = "ok" THEN [auth EXCEPT !.profile = ProfileRow(uid)] ELSE auth
    /\ profileFetches' = profileFetches \ {uid}
    /\ UNCHANGED <<configured, initRun, call, user_profiles, identities, subscribed,
                   location, authOnly>>

\* signOut: in demo mode it leaves demo mode; otherwise supabase.auth.signOut()
\* ends the session and the callback, if registered, receives the event
SignOut ==
    /\ \E raw \in {"ok", "throw"} :
        auth' = IF auth.isDemo
                THEN [auth EXCEPT !.error = "null", !.isDemo = FALSE, !.profile = NoProfile]
                ELSE IF raw = "ok" /\ subscribed
                THEN OnAuthStateChange(auth, "")
                ELSE [auth EXCEPT !.error = "null"]
    /\ UNCHANGED <<configured, initRun, call, user_profiles, identities, sessionVars,
                   authOnly>>

\* handleDemoLogin of the login page: demoLogin(role); navigate('/dashboard')
HandleDemoLogin(role) ==
    /\ location = "/login" /\ auth.error # "null"
    /\ auth' = DemoLoggedIn(auth, role)
    /\ location' = "/dashboard"
    /\ UNCHANGED <<configured, initRun, call, user_profiles, identities, subscribed,
                   profileFetches, authOnly>>

\* The user follows a link or enters a path
GoTo(path) ==
    /\ path # location
    /\ location' = path
    /\ UNCHANGED <<configured, auth, initRun, call, user_profiles, identities, subscribed,
                   profileFetches, authOnly>>

\* ProtectedRoute renders a Navigate
Redirect ==
    /\ location # "/login"
    /\ ProtectedRoute(RequiredRole(location)) \in Paths
    /\ location' = ProtectedRoute(RequiredRole(location))
    /\ UNCHANGED <<configured, auth, initRun, call, user_profiles, identities, subscribed,
                   profileFetches, authOnly>>

SessionNext ==
    \/ SetupAuth
    \/ InitRunStep
    \/ Subscribe
    \/ RetryConnection
    \/ \E role \in {"student", "staff"} : HandleDemoLogin(role)
    \/ \E u \in EventUsers : AuthStateChange(u)
    \/ \E uid \in profileFetches :
            \E raw \in {"ok", "error", "throw", "timeout"} : EventProfileAnswer(uid, raw)
    \/ SignOut
    \/ CallAuth("signUp")
    \/ \E raw \in {"user+session", "user", "error", "throw", "timeout"} : SignUpAuthAnswer(raw)
    \/ \E raw \in {"reach", "error", "throw"} : SignUpInsertAnswer(raw)
    \/ \E path \in Paths : GoTo(path)
    \/ Redirect

SpecSession == AuthInit /\ [][SessionNext]_vars

(***************************************************************************)
(* The data fetches of the screens: fetchAppointments, fetchDashboardData, *)
(* fetchNotifications, fetchAvailabilityData and fetchAvailableSlots.      *)
(* Each sets its loading flag, awaits the store and clears the flag in its *)
(* finally block.  The store may answer, or never answer.                  *)
(***************************************************************************)
\* Number of store queries the fetch of a screen awaits one after the other
Queries(screen) == IF screen = "slots" THEN 2 ELSE 1

\* the fetch starts: setLoading(true) and the first query is sent
StartFetch(sc) ==
    /\ fetches[sc].pc = "idle"
    /\ fetches' = [fetches EXCEPT ![sc] = [loading |-> TRUE, pc |-> "await1"]]
    /\ UNCHANGED <<genVars, now, staff_availability, appointments, inserted, list,
                   renderedAt, modal, notesModal, toast, reply, authVars,
                   notifications>>

\* the store answers the awaited query with data or with an error
StoreAnswers(sc, outcome) ==
    /\ fetches[sc].pc \in {"await1", "await2"}
    /\ fetches' = [fetches EXCEPT ![sc].pc =
                      IF outcome = "error" THEN "failed"
                      ELSE IF @ = "await1" /\ Queries(sc) = 2 THEN "got1" ELSE "got"]
    /\ UNCHANGED <<genVars, now, staff_availability, appointments, inserted, list,
                   renderedAt, modal, notesModal, toast, reply, authVars,
                   notifications>>

\* the code after the await runs: the next query is sent, or the catch and
\* finally blocks run and setLoading(false)
ContinueFetch(sc) ==
    /\ fetches[sc].pc \in {"got1", "got", "failed"}
    /\ fetches' = [fetches EXCEPT ![sc] =
                      IF @.pc = "got1" THEN [@ EXCEPT !.pc = "await2"]
                      ELSE [loading |-> FALSE, pc |-> "idle"]]
    /\ UNCHANGED <<genVars, now, staff_availability, appointments, inserted, list,
                   renderedAt, modal, notesModal, toast, reply, authVars,
                   notifications>>

LoadingNext ==
    \E sc \in Screens :
        \/ StartFetch(sc)
        \/ \E outcome \in {"data", "error"} : StoreAnswers(sc, outcome)
        \/ ContinueFetch(sc)

\* The code after an answered await always gets to run; nothing makes the
\* store answer.
SpecLoading ==
    /\ Init /\ [][LoadingNext]_vars
    /\ \A sc \in Screens : WF_vars(ContinueFetch(sc))

(***************************************************************************)
(* Properties of the slot generator.                                       *)
(***************************************************************************)
SlotOf(h) == [start_time |-> HHMM(h, 0), end_time |-> HHMM(h + 1, 0)]

Range(f) == {f[i] : i \in DOMAIN f}

\* C3: every generated slot lies inside some supplied window, is exactly one
\* hour long, and starts at no booked interval's start.
C3_SlotsInsideWindows ==
    genPc = "done" =>
        \A i \in DOMAIN slots :
            /\ \E w \in Range(genAvailability) :
                    /\ MinutesOf(w.start_time) <= MinutesOf(slots[i].start_time)
                    /\ MinutesOf(slots[i].end_time) <= MinutesOf(w.end_time)
            /\ MinutesOf(slots[i].end_time) - MinutesOf(slots[i].start_time) = 60
            /\ \A b \in genAppointments : b.start_time # slots[i].start_time

\* C4: one window 09:00-12:00 and one booked interval 10:00-11:00 give exactly
\* the slots 09:00-10:00 and 11:00-12:00, in that order.
C4_ScenarioInputs ==
    /\ genAvailability = <<[start_time |-> HHMM(9, 0), end_time |-> HHMM(12, 0)]>>
    /\ genAppointments = {[start_time |-> HHMM(10, 0), end_time |-> HHMM(11, 0)]}

C4_MondayScenario ==
    (genPc = "done" /\ C4_ScenarioInputs) => slots = <<SlotOf(9), SlotOf(11)>>

C4_Witness == genPc = "done" /\ C4_ScenarioInputs /\ Len(slots) = 2

\* Length in minutes of the single window supplied
WindowLength ==
    MinutesOf(genAvailability[1].end_time) - MinutesOf(genAvailability[1].start_time)

OneWindowNothingBooked ==
    genPc = "done" /\ Len(genAvailability) = 1 /\ genAppointments = {}

\* slot s lies inside window w and is one hour long
WholeSlotInside(s, w) ==
    /\ MinutesOf(w.start_time) <= MinutesOf(s.start_time)
    /\ MinutesOf(s.end_time) <= MinutesOf(w.end_time)
    /\ MinutesOf(s.end_time) - MinutesOf(s.start_time) = 60

\* C14: with nothing booked and one window exactly one hour long, whatever
\* its HH:MM start, the generator returns exactly one slot, equal to the window.
C14_OneHourWindowOneSlot ==
    (OneWindowNothingBooked /\ WindowLength = 60)
    => slots = <<[start_time |-> genAvailability[1].start_time,
                  end_time |-> genAvailability[1].end_time]>>

\* C15: for one window whose length is not a whole number of hours, every
\* slot returned is a whole hour inside the window, and a window shorter than
\* one hour yields no slot.
C15_RemainderDropped ==
    (OneWindowNothingBooked /\ WindowLength % 60 # 0)
    => /\ \A i \in DOMAIN slots : WholeSlotInside(slots[i], genAvailability[1])
       /\ WindowLength < 60 => slots = <<>>

\* The hours the loop visits for the windows supplied
CandidateHours ==
    UNION {ParseInt(SplitFirst(genAvailability[i].start_time))
              .. ParseInt(SplitFirst(genAvailability[i].end_time)) - 1 :
           i \in DOMAIN genAvailability}

\* Some booked interval starts at minute t, or starts before t and ends after it
Covered(t) ==
    \E b \in genAppointments :
        \/ MinutesOf(b.start_time) = t
        \/ MinutesOf(b.start_time) < t /\ t < MinutesOf(b.end_time)

\* C20: the slot of a candidate hour is left out exactly when some booked
\* interval starts at the slot's start, or starts strictly before it and ends
\* strictly after it; an interval starting strictly inside the slot does not
\* remove it.
C20_RejectedExactlyWhenCovered ==
    genPc = "done" =>
        \A h \in CandidateHours : SlotOf(h) \in Range(slots) <=> ~Covered(60 * h)

\* a slot is offered although a booked interval starts strictly inside it, and
\* another candidate is left out
C20_Witness ==
    /\ genPc = "done"
    /\ \E h \in CandidateHours :
          /\ SlotOf(h) \in Range(slots)
          /\ \E b \in genAppointments :
                60 * h < MinutesOf(b.start_time) /\ MinutesOf(b.start_time) < 60 * (h + 1)
    /\ \E h \in CandidateHours : SlotOf(h) \notin Range(slots)

Terminal == {"declined", "cancelled", "completed"}

Blocking == {"pending", "approved"}

\* The rows of the lifecycle's transition table: <<from, to, actor role>>
TransitionTable ==
    {<<"pending", "approved", "staff">>, <<"pending", "declined", "staff">>,
     <<"pending", "cancelled", "student">>, <<"pending", "cancelled", "staff">>,
     <<"approved", "cancelled", "student">>, <<"approved", "cancelled", "staff">>,
     <<"approved", "completed", "staff">>}

SameSlot(r1, r2) ==
    /\ r1.staff_id = r2.staff_id
    /\ r1.appointment_date = r2.appointment_date
    /\ r1.start_time = r2.start_time
    /\ r1.end_time = r2.end_time

\* C1: the store never holds pending/approved appointments of two students for
\* the same staff member, date and slot (the second student's booking of a
\* slot the first has booked is rejected).
C1_NoDoubleBooking ==
    \A i \in DOMAIN appointments : \A j \in DOMAIN appointments :
        (/\ appointments[i].student_id # appointments[j].student_id
         /\ appointments[i].status \in Blocking
         /\ appointments[j].status \in Blocking)
        => ~SameSlot(appointments[i], appointments[j])

\* C2: once the stored status of an appointment is declined, cancelled or
\* completed, no step changes that status.
C2_TerminalAbsorbing ==
    [][\A id \in DOMAIN appointments :
          (appointments[id].status \in Terminal /\ id \in DOMAIN appointments')
          => appointments'[id].status = appointments[id].status]_vars

\* C5: a stored status changes from pending to approved only by a request of
\* the staff member whose id is the row's staff_id; the request of anyone
\* else leaves the row pending.
C5_OnlyStaffApproves ==
    [][\A caller \in Users : \A id \in DOMAIN appointments :
          (/\ appointments[id].status = "pending"
           /\ ApiUpdate(caller, id, [status |-> "approved"])
           /\ ~(Role(caller) = "staff" /\ caller = appointments[id].staff_id))
          => appointments'[id].status = "pending"]_vars

\* C11: a run of initializeAuth makes at most MaxRetries attempts, waits
\* RetryDelay before each further attempt, and ends; the step that ends it
\* leaves loading false and, when every attempt failed, isDemo true and error
\* set; once it has ended nothing but retryConnection starts an attempt.
C11_InitBounded ==
    /\ [](initRun.attempt <= MaxRetries /\ initRun.started <= MaxRetries)
    /\ [](initRun.pc = "sleep" => initRun.delay = RetryDelay)
    /\ [][(initRun.pc # "ended" /\ initRun'.pc = "ended")
            => /\ ~auth'.loading
               /\ initRun'.outcome = "failed" => auth'.isDemo /\ auth'.error # "null"]_vars
    /\ [][(initRun.pc = "ended" /\ initRun' # initRun) => RetryConnection]_vars
    /\ (initRun.pc # "ended") ~> (initRun.pc = "ended")

\* a run has ended in demo mode after MaxRetries failed calls of getSession
C11_Witness ==
    /\ initRun.pc = "ended" /\ initRun.outcome = "failed"
    /\ initRun.started = MaxRetries /\ initRun.attempt = MaxRetries
    /\ auth.isDemo /\ ~auth.loading /\ auth.error # "null"

\* C12: whenever a screen's data fetch is waiting for the store, the screen's
\* loading flag eventually becomes false.
C12_LoadingEnds ==
    \A sc \in Screens :
        (fetches[sc].pc \in {"await1", "await2"}) ~> ~fetches[sc].loading

\* C16: a returned signUp, signIn or updateProfile has resolved, not
\* rejected, and has resolved with error = null only if no collaborator call
\* it made failed.
C16_CallsNeverRejectNorHideFailure ==
    call.pc = "returned"
    => /\ call.settled = "resolved"
       /\ ~call.error => ~call.failed

\* C18: when signUp has returned { error: null } for an identity it created,
\* user_profiles holds exactly one row of that identity.
C18_SignUpSuccessHasProfile ==
    (call.fn = "signUp" /\ call.pc = "returned" /\ ~call.error /\ call.uid # "")
    => ProfileCount(call.uid) = 1

\* row names uid as its student or as its staff member
Names(row, uid) == row.student_id = uid \/ row.staff_id = uid

\* C17: a select returns to a caller only rows that name it; an update or
\* delete changes only a row that names the caller, and an updated or
\* inserted row still names the caller; a row between two other users is
\* neither returned nor changed.
C17_RowLevelAuthorization ==
    [][/\ reply'.op = "select"
          => \A id \in reply'.rows : Names(appointments[id], reply'.caller)
       /\ (reply'.op = "insert" /\ appointments' # appointments)
          => Names(appointments'[inserted'], reply'.caller)
       /\ \A id \in DOMAIN appointments :
             /\ (reply'.op = "update" /\ appointments'[id] # appointments[id])
                   => /\ Names(appointments[id], reply'.caller)
                      /\ Names(appointments'[id], reply'.caller)
             /\ (reply'.op = "delete" /\ id \notin DOMAIN appointments')
                   => Names(appointments[id], reply'.caller)]_vars

\* an update asked by a caller the stored row does not name has matched no row
C17_Witness ==
    /\ reply.op = "update" /\ reply.count = 0 /\ ~reply.error
    /\ \E id \in DOMAIN appointments : ~Names(appointments[id], reply.caller)
    /\ \A id \in DOMAIN appointments : ~Names(appointments[id], reply.caller)

\* C6: a pending or approved appointment becomes cancelled only at a moment at
\* which its start instant is not in the past.
C6_CancelOnlyBeforeStart ==
    [][\A id \in DOMAIN appointments :
          (/\ appointments[id].status \in Blocking
           /\ id \in DOMAIN appointments'
           /\ appointments'[id].status = "cancelled")
          => ~IsPast(InstantOf(appointments[id].appointment_date,
                               appointments[id].start_time), now)]_vars

\* C7: an approved appointment becomes completed only at a moment at which
\* its end instant is not in the future.
C7_CompleteOnlyAfterEnd ==
    [][\A id \in DOMAIN appointments :
          (/\ appointments[id].status = "approved"
           /\ id \in DOMAIN appointments'
           /\ appointments'[id].status = "completed")
          => InstantOf(appointments[id].appointment_date,
                       appointments[id].end_time) <= now]_vars

\* C8: an edit submitted from the booking modal is written only to a row whose
\* stored status is pending, and leaves the stored status as it was.
C8_EditKeepsStatus ==
    [][\A u \in Students :
          (/\ modal[u].isOpen /\ modal[u].editing \in DOMAIN appointments
           /\ SubmitAppointment(u)
           /\ appointments' # appointments)
          => /\ appointments[modal[u].editing].status = "pending"
             /\ appointments'[modal[u].editing].status
                    = appointments[modal[u].editing].status]_vars

\* The slot list u would get for a staff member and date from the store as it is
OfferedNow(u, staff, date) ==
    Range(GenerateSlots(AvailabilityQuery(u, staff, date),
                        AppointmentsQuery(u, staff, date)))

\* The stored pending/approved appointments for a staff member and date
BlockingRows(staff, date) ==
    {[start_time |-> appointments[id].start_time, end_time |-> appointments[id].end_time] :
        id \in {i \in DOMAIN appointments :
                    /\ appointments[i].staff_id = staff
                    /\ appointments[i].appointment_date = date
                    /\ appointments[i].status \in Blocking}}

\* C19: for every student computing the slots of (S, D): no offered slot
\* starts at the start_time of a stored pending/approved appointment for
\* (S, D), and every slot of the windows that no stored pending/approved
\* appointment for (S, D) rejects is offered, whatever cancelled, declined or
\* completed appointments are stored.
C19_OnlyActiveAppointmentsBlock ==
    \A u \in Students : \A staff \in StaffMembers : \A date \in Dates :
        /\ \A b \in BlockingRows(staff, date) :
              \A sl \in OfferedNow(u, staff, date) : sl.start_time # b.start_time
        /\ Range(GenerateSlots(AvailabilityQuery(u, staff, date),
                               BlockingRows(staff, date)))
              \subseteq OfferedNow(u, staff, date)

\* C9: every appointment the booking modal inserts is pending and is for a
\* slot the generator offers, at the time of submission, for the staff member
\* and date submitted.
C9_CreatedSlotOffered ==
    [][\A u \in Students :
          (/\ modal[u].isOpen /\ modal[u].editing = 0
           /\ SubmitAppointment(u)
           /\ inserted' = inserted + 1)
          => /\ appointments'[inserted'].status = "pending"
             /\ [start_time |-> appointments'[inserted'].start_time,
                 end_time |-> appointments'[inserted'].end_time]
                    \in OfferedNow(u, appointments'[inserted'].staff_id,
                                   appointments'[inserted'].appointment_date)]_vars

\* C21: the generated slot list is in ascending start-time order, whatever the
\* order in which the availability query returned the windows.
C21_SlotsAscend ==
    genPc = "done" =>
        \A i, j \in DOMAIN slots :
            i < j => MinutesOf(slots[i].start_time) <= MinutesOf(slots[j].start_time)

\* Number of times slot s occurs in a slot list
Occurrences(slotList, s) == Cardinality({i \in DOMAIN slotList : slotList[i] = s})

\* Number of the windows supplied that contain the whole hour h
Covering(availability, h) ==
    Cardinality({i \in DOMAIN availability :
                    /\ MinutesOf(availability[i].start_time) <= 60 * h
                    /\ 60 * (h + 1) <= MinutesOf(availability[i].end_time)})

\* No booked interval overlaps the hour h
Unbooked(appts, h) ==
    \A b \in appts :
        ~(MinutesOf(b.start_time) < 60 * (h + 1) /\ 60 * h < MinutesOf(b.end_time))

\* Two rows of staff_availability of one staff member and day whose windows overlap
OverlappingWindows(i, j) ==
    /\ i # j
    /\ staff_availability[i].staff_id = staff_availability[j].staff_id
    /\ staff_availability[i].day_of_week = staff_availability[j].day_of_week
    /\ MinutesOf(staff_availability[i].start_time) < MinutesOf(staff_availability[j].end_time)
    /\ MinutesOf(staff_availability[j].start_time) < MinutesOf(staff_availability[i].end_time)

\* C22: the availability form can always store one more window, whatever
\* windows are already stored and even if it overlaps one of them; and the
\* slot list a completed fetchAvailableSlots stores holds each unbooked hour
\* slot as many times as there are returned windows containing it (twice for
\* two overlapping windows).
C22_OverlapStoredAndSlotRepeated ==
    /\ [](\A u \in StaffMembers, d \in Dates, w \in OverlapChoices :
            ENABLED (AddAvailability(u, GetDay(d), w) /\ toast' = "success"))
    /\ [][\A u \in Students : \A req \in modal[u].inflight :
            (modal'[u].inflight = modal[u].inflight \ {req} /\ toast' = "none")
            => \A h \in 0..23 :
                  Unbooked(AppointmentsQuery(u, req.staff_id, req.appointment_date), h)
                  => Occurrences(modal'[u].availableSlots, SlotOf(h))
                        >= Covering(AvailabilityQuery(u, req.staff_id, req.appointment_date),
                                    h)]_vars

\* two overlapping windows of one day are stored and a student's slot list
\* holds the same slot twice
C22_Witness ==
    /\ \E i, j \in DOMAIN staff_availability : OverlappingWindows(i, j)
    /\ \E u \in Students : \E h \in 0..23 :
          Occurrences(modal[u].availableSlots, SlotOf(h)) = 2

\* A click on a status button or on Save Notes by u that asks the store to
\* set the status of row id to newStatus
StatusRequest(u, id, newStatus) ==
    \/ newStatus = "cancelled" /\ CancelAppointment(u, id)
    \/ newStatus = "approved" /\ ApproveAppointment(u, id)
    \/ newStatus = "declined" /\ DeclineAppointment(u, id)
    \/ newStatus = "completed" /\ MarkComplete(u, id)
    \/ /\ u \in StaffMembers /\ notesModal[u] = id /\ id \in DOMAIN list[u]
       /\ newStatus = list[u][id].status
       /\ \E text \in NoteTexts : HandleStaffNotesSubmit(u, text)

\* C10: a request to change the status of a row that is not a row of the
\* transition table for (stored status, requested status, actor role) ends
\* with an error and leaves the stored row as it was.
C10_InvalidTransitionFails ==
    [][\A u \in Actors : \A id \in DOMAIN appointments : \A newStatus \in Statuses :
          (/\ StatusRequest(u, id, newStatus)
           /\ newStatus # appointments[id].status
           /\ <<appointments[id].status, newStatus, Role(u)>> \notin TransitionTable)
          => /\ toast' = "error"
             /\ appointments' = appointments]_vars

\* The status changes of the lifecycle: <<from, to>>
AllowedChanges == {<<t[1], t[2]>> : t \in TransitionTable}

\* The row of id as the page of u lists it is the stored row
UpToDate(u, id) ==
    /\ id \in DOMAIN appointments /\ id \in DOMAIN list[u]
    /\ list[u][id] = Listed(appointments[id])

\* u saves staff notes of row id, or submits the edit form of row id
KeepsStatus(u, id) ==
    \/ /\ u \in StaffMembers /\ notesModal[u] = id
       /\ \E text \in NoteTexts : HandleStaffNotesSubmit(u, text)
    \/ /\ u \in Students /\ modal[u].editing = id
       /\ SubmitAppointment(u)

\* u clicks a status button of row id
ChangesStatus(u, id) ==
    \/ CancelAppointment(u, id)
    \/ ApproveAppointment(u, id)
    \/ DeclineAppointment(u, id)
    \/ MarkComplete(u, id)

CounterParty(u, row) == IF Role(u) = "student" THEN row.staff_id ELSE row.student_id

\* C24: after every successful status transition made with a status button, a
\* notification row of the appointment addressed to the counter-party exists.
C24_TransitionNotifies ==
    [][\A u \in Actors : \A id \in DOMAIN appointments :
          (/\ ChangesStatus(u, id)
           /\ toast' = "success"
           /\ appointments'[id].status # appointments[id].status)
          => \E n \in notifications' :
                /\ n.appointment_id = id
                /\ n.user_id = CounterParty(u, appointments[id])]_vars

\* C25: for a pending or approved appointment whose start is not in the past,
\* each owner (the student and the staff member) whose page lists the row as
\* stored and was rendered at the current time can cancel it: the cancel
\* action is available and sets the status to cancelled.
C25_BothOwnersCanCancel ==
    \A id \in DOMAIN appointments :
        \A u \in {appointments[id].student_id, appointments[id].staff_id} \cap Actors :
            (/\ appointments[id].status \in Blocking
             /\ ~IsPast(InstantOf(appointments[id].appointment_date,
                                  appointments[id].start_time), now)
             /\ UpToDate(u, id) /\ ListClickable(u) /\ renderedAt[u] = now)
            => ENABLED (CancelAppointment(u, id) /\ appointments'[id].status = "cancelled")

\* The part of C25 about the student alone
StudentCanCancel ==
    \A id \in DOMAIN appointments :
        LET u == appointments[id].student_id
        IN  (/\ u \in Actors
             /\ appointments[id].status \in Blocking
             /\ ~IsPast(InstantOf(appointments[id].appointment_date,
                                  appointments[id].start_time), now)
             /\ UpToDate(u, id) /\ ListClickable(u) /\ renderedAt[u] = now)
            => ENABLED (CancelAppointment(u, id) /\ appointments'[id].status = "cancelled")

\* The time ranges of two rows overlap
RangesOverlap(r1, r2) ==
    /\ MinutesOf(r1.start_time) < MinutesOf(r2.end_time)
    /\ MinutesOf(r2.start_time) < MinutesOf(r1.end_time)

\* C26: no two appointments of one staff member and date whose statuses are
\* both outside {cancelled, declined} have overlapping time ranges.
C26_NoOverlapWhenSerial ==
    \A i, j \in DOMAIN appointments :
        (/\ i # j
         /\ appointments[i].staff_id = appointments[j].staff_id
         /\ appointments[i].appointment_date = appointments[j].appointment_date
         /\ appointments[i].status \notin {"cancelled", "declined"}
         /\ appointments[j].status \notin {"cancelled", "declined"})
        => ~RangesOverlap(appointments[i], appointments[j])

\* The slot list of the staff member and date selected in u's form
SlotsOfSelection(u) ==
    GenerateSlots(AvailabilityQuery(u, modal[u].staff_id, modal[u].appointment_date),
                  AppointmentsQuery(u, modal[u].staff_id, modal[u].appointment_date))

\* C27: when the last slot request in flight completes successfully while
\* the form is open with a staff member and a date selected, the slot list
\* displayed is the list of the selected staff member and date.
C27_LatestSelectionShown ==
    [][\A u \in Students : \A req \in modal[u].inflight :
          (/\ FetchAvailableSlotsDone(u, req)
           /\ modal'[u].inflight = {} /\ toast' = "none"
           /\ modal[u].isOpen /\ modal[u].staff_id # "" /\ modal[u].appointment_date # 0)
          => modal'[u].availableSlots = SlotsOfSelection(u)]_vars

\* C28: outside demo mode a non-null profile is the current user's
\* (profile.user_id = user.id), and the profile is null whenever the user is.
C28_ProfileBelongsToUser ==
    ~auth.isDemo =>
        /\ auth.profile # NoProfile => auth.profile.user_id = auth.user
        /\ auth.user = "" => auth.profile = NoProfile

\* C29: once handleDemoLogin has run after a failed initialisation (demo
\* mode with a demo profile), ProtectedRoute renders its children for the
\* protected path the router is at whenever the demo role meets the path's
\* required role.
C29_DemoReachesProtectedRoutes ==
    (/\ auth.isDemo /\ auth.profile \in {DemoProfile("student"), DemoProfile("staff")}
     /\ initRun.outcome = "failed"
     /\ location # "/login"
     /\ RequiredRole(location) \in {"", auth.profile.role})
    => ProtectedRoute(RequiredRole(location)) = "children"

\* C30: for every protected path, ProtectedRoute renders its children only
\* when loading is false, error is null, user and profile are non-null and
\* the profile's role is the path's required role, if it has one; so the
\* staff-only paths are not rendered for a student profile.
C30_ChildrenOnlyWhenAuthorized ==
    \A path \in Paths \ {"/login"} :
        ProtectedRoute(RequiredRole(path)) = "children"
        => /\ ~auth.loading /\ auth.error = "null"
           /\ auth.user # "" /\ auth.profile # NoProfile
           /\ RequiredRole(path) # "" => auth.profile.role = RequiredRole(path)
           /\ path \in {"/availability", "/reports"} => auth.profile.role # "student"

\* the router is at a staff-only path and ProtectedRoute renders its children
\* there, for a staff profile
C30_Witness ==
    /\ location \in {"/availability", "/reports"}
    /\ ProtectedRoute(RequiredRole(location)) = "children"

====
